---- MODULE Spec2Model ----
(***************************************************************************)
(* State-machine model of the dashboard component App                      *)
(* (frontend/src/App.jsx): the React state cells, the interval callback    *)
(* that simulates background traffic, and the async function analyzeUrl    *)
(* with its suspension points (await fetch, await response.json(), the     *)
(* 800 ms fallback delay).  JavaScript runs one handler at a time, so each *)
(* action is the code between two suspension points, with every state      *)
(* update it queues applied.                                               *)
(***************************************************************************)
EXTENDS Integers, Sequences, FiniteSets, TLC

(***************************************************************************)
(* Bounds of the model.                                                    *)
(***************************************************************************)
MaxScans == 2      \* accepted submissions per behaviour of Spec
MaxTicks == 2      \* interval callbacks per behaviour of Spec
MaxLogScans == 1   \* accepted submissions per behaviour of LogSpec
MaxLogTicks == 7   \* interval callbacks per behaviour of LogSpec
MaxEvalScans == 1  \* accepted submissions per behaviour of EvalSpec
MaxLiveScans == 2  \* accepted submissions per behaviour of LiveSpec
MaxLiveTicks == 1  \* interval callbacks per behaviour of LiveSpec
MaxSessionScans == 1  \* accepted submissions per behaviour of SessionSpec
MaxSessionTicks == 2  \* interval callbacks per behaviour of SessionSpec
MaxPrior == 8         \* longest array handed to an updater in PushSpec

(***************************************************************************)
(* Program constants.                                                      *)
(***************************************************************************)
SeedBenign == 400
SeedPhishing == 300
LogCapacity == 7
LengthThreshold == 50
ConfBase == 750

(***************************************************************************)
(* Text.  A string is a sequence of one-character strings, so that         *)
(* String.prototype.includes and .length are computed, not assumed.        *)
(***************************************************************************)
Str(n, c) == [i \in 1..n |-> c]

WordBank == <<"b", "a", "n", "k">>
WordSecure == <<"s", "e", "c", "u", "r", "e">>

\* s.includes(sub): some position where sub occurs in s
Includes(s, sub) ==
  \E i \in 1..(Len(s) - Len(sub) + 1) : SubSeq(s, i, i + Len(sub) - 1) = sub

EmptyUrl == <<>>
UrlPlain == <<"a">>
Urls == {EmptyUrl, UrlPlain, WordBank}

\* the values the random sources take in the model
BatchIds == {1000}
RandTenths == {0, 199}

\* clock units that may have passed since the previous read of Date.now()
Elapsed == {0, 1}

\* bodies a 2xx response of POST /predict may carry; confidence in 1/10000
RemoteData ==
  { [prediction |-> "phishing", confidence |-> 9500, risk_level |-> "CRITICAL"],
    [prediction |-> "benign", confidence |-> 9996, risk_level |-> "MEDIUM"],
    [prediction |-> "suspicious", confidence |-> 5004, risk_level |-> "LOW"] }

\* (x * 100).toFixed(1), in tenths of a percent, rounding half up
ToFixed1(c) == (c + 5) \div 10

VARIABLES
  url,            \* useState('')
  result,         \* useState(null)
  loading,        \* useState(false)
  backendStatus,  \* useState('Checking...')
  stats,          \* useState([{Benign,400},{Phishing,300}])
  logs,           \* useState([])
  now,            \* the clock read by Date.now()
  scans,          \* the invocations of analyzeUrl suspended at an await
  nScans,         \* invocations of analyzeUrl that passed the url guard
  nTicks,         \* interval callbacks run so far
  ignored,        \* the handler that ran last was analyzeUrl returning at its guard
  interval,       \* the timer of useEffect: "running" from mount, "cleared" by the cleanup
  applied,        \* per label, the increments the handlers have asked of stats so far
  prior,          \* a value handed to a setLogs updater as prev
  pushed          \* what that updater did with it: the array returned, or the error raised

vars == <<url, result, loading, backendStatus, stats, logs, now, scans, nScans, nTicks, ignored,
          interval, applied, prior, pushed>>

\* the initial value of stats
SeedStats == << [name |-> "Benign", value |-> SeedBenign],
               [name |-> "Phishing", value |-> SeedPhishing] >>

\* A value of the language as a setLogs updater can be handed it: its kind,
\* and for an array its elements, for a string its characters.
NoLogs == [kind |-> "array", items |-> <<>>]

\* no updater has been run on prior
NotPushed == [kind |-> "none"]

NoneApplied == [Benign |-> 0, Phishing |-> 0]

NoResult == [prediction |-> "null", confidence |-> 0, risk |-> "null"]

Init ==
  /\ url = EmptyUrl
  /\ result = NoResult
  /\ loading = FALSE
  /\ backendStatus = "Checking..."
  /\ stats = SeedStats
  /\ logs = <<>>
  /\ now = 0
  /\ scans = <<>>
  /\ nScans = 0
  /\ nTicks = 0
  /\ ignored = FALSE
  /\ interval = "running"
  /\ applied = NoneApplied
  /\ prior = NoLogs
  /\ pushed = NotPushed

(***************************************************************************)
(* The state updaters.                                                     *)
(***************************************************************************)
\* .slice(0, n)
Slice(s, n) == SubSeq(s, 1, IF Len(s) < n THEN Len(s) ELSE n)

\* the interval's updater written over the stats captured at mount instead of
\* over prev
TickStatsStale(prev, isPhishing) ==
  [index \in 1..Len(SeedStats) |->
     IF (isPhishing /\ index = 2) \/ (~isPhishing /\ index = 1)
       THEN [SeedStats[index] EXCEPT !.value = @ + 1]
       ELSE SeedStats[index]]

\* the interval's updater without its test on the index
TickStatsBoth(prev, isPhishing) ==
  [index \in 1..Len(prev) |-> [prev[index] EXCEPT !.value = @ + 1]]

\* interval: prev.map((item, index) => ...) with the coin isPhishing
TickStats(prev, isPhishing) ==
  [index \in 1..Len(prev) |->
     IF isPhishing /\ index = 2
       THEN [prev[index] EXCEPT !.value = @ + 1]
       ELSE IF ~isPhishing /\ index = 1
              THEN [prev[index] EXCEPT !.value = @ + 1]
              ELSE prev[index]]

\* A log entry is [id, msg, level]: id is the reading of Date.now(), msg the
\* template's fixed text followed by the value it interpolates.  The entry's
\* time string is a rendering of the same clock and is left out.

\* interval: [newLog, ...safePrev].slice(0, 7); prev is always a sequence here
TickLogs(prev, newLog) == Slice(<<newLog>> \o prev, LogCapacity)

\* analyzeUrl, both paths: [{...}, ...prev]
ScanLogs(prev, entry) == <<entry>> \o prev

\* the success updater written over the stats captured at mount instead of
\* over prev
ScanStatsStale(prev, prediction) ==
  [index \in 1..Len(SeedStats) |->
     IF prediction = "phishing" /\ SeedStats[index].name = "Phishing"
       THEN [SeedStats[index] EXCEPT !.value = @ + 1]
       ELSE IF prediction = "benign" /\ SeedStats[index].name = "Benign"
              THEN [SeedStats[index] EXCEPT !.value = @ + 1]
              ELSE SeedStats[index]]

\* the success updater counting every prediction but "benign" as Phishing
ScanStatsElse(prev, prediction) ==
  [index \in 1..Len(prev) |->
     IF prediction = "benign" /\ prev[index].name = "Benign"
       THEN [prev[index] EXCEPT !.value = @ + 1]
       ELSE IF prediction # "benign" /\ prev[index].name = "Phishing"
              THEN [prev[index] EXCEPT !.value = @ + 1]
              ELSE prev[index]]

\* the success updater comparing item.name with data.prediction as it is
\* spelled in the response
ScanStatsCase(prev, prediction) ==
  [index \in 1..Len(prev) |->
     IF prev[index].name = prediction
       THEN [prev[index] EXCEPT !.value = @ + 1]
       ELSE prev[index]]

\* analyzeUrl success: prev.map(item => ...) keyed by data.prediction
ScanStats(prev, prediction) ==
  [index \in 1..Len(prev) |->
     IF prediction = "phishing" /\ prev[index].name = "Phishing"
       THEN [prev[index] EXCEPT !.value = @ + 1]
       ELSE IF prediction = "benign" /\ prev[index].name = "Benign"
              THEN [prev[index] EXCEPT !.value = @ + 1]
              ELSE prev[index]]

\* an invocation that ran to its end is no longer suspended
Remove(s, i) == SubSeq(s, 1, i - 1) \o SubSeq(s, i + 1, Len(s))

\* the fallback test with the length compared by >=
IsPhishFrom(u) ==
  Includes(u, WordBank) \/ Len(u) >= LengthThreshold \/ Includes(u, WordSecure)

\* the fallback simulation of the catch block
IsPhish(u) ==
  Includes(u, WordBank) \/ Len(u) > LengthThreshold \/ Includes(u, WordSecure)

MockRes(u, rnd) ==
  [prediction |-> IF IsPhish(u) THEN "phishing" ELSE "benign",
   confidence |-> ConfBase + rnd,
   risk |-> IF IsPhish(u) THEN "CRITICAL" ELSE "LOW"]

(***************************************************************************)
(* Handlers.                                                               *)
(***************************************************************************)
\* onChange of the input
SetUrl(u) ==
  /\ u # url
  /\ url' = u
  /\ ignored' = FALSE
  /\ UNCHANGED <<result, loading, backendStatus, stats, logs, now, scans, nScans, nTicks, interval, applied, prior, pushed>>

\* one more increment asked of the count named name
Ask(a, name) == [a EXCEPT ![name] = @ + 1]

\* the interval callback, had the effect returned no cleanup
TickOrphaned(isPhishing, batch) ==
  /\ applied' = Ask(applied, IF isPhishing THEN "Phishing" ELSE "Benign")
  /\ now' = now + 1
  /\ stats' = TickStats(stats, isPhishing)
  /\ logs' = TickLogs(logs, [id |-> now', msg |-> <<"Auto-scanning batch #", batch>>,
                              level |-> "INFO"])
  /\ nTicks' = nTicks + 1
  /\ ignored' = FALSE
  /\ UNCHANGED <<url, result, loading, backendStatus, scans, nScans, interval, prior, pushed>>

\* the interval callback, had it been held back while a scan is in flight
TickWhenIdle(isPhishing, batch) ==
  /\ interval = "running"
  /\ ~loading
  /\ applied' = Ask(applied, IF isPhishing THEN "Phishing" ELSE "Benign")
  /\ now' = now + 1
  /\ stats' = TickStats(stats, isPhishing)
  /\ logs' = TickLogs(logs, [id |-> now', msg |-> <<"Auto-scanning batch #", batch>>,
                              level |-> "INFO"])
  /\ nTicks' = nTicks + 1
  /\ ignored' = FALSE
  /\ UNCHANGED <<url, result, loading, backendStatus, scans, nScans, interval, prior, pushed>>

\* the interval callback also reporting on the backend
TickWithProbe(isPhishing, batch) ==
  /\ interval = "running"
  /\ applied' = Ask(applied, IF isPhishing THEN "Phishing" ELSE "Benign")
  /\ now' = now + 1
  /\ stats' = TickStats(stats, isPhishing)
  /\ logs' = TickLogs(logs, [id |-> now', msg |-> <<"Auto-scanning batch #", batch>>,
                              level |-> "INFO"])
  /\ nTicks' = nTicks + 1
  /\ ignored' = FALSE
  /\ backendStatus' = "Offline (Simulated Mode)"
  /\ UNCHANGED <<url, result, loading, scans, nScans, interval, prior, pushed>>

\* the setInterval callback, run while the timer is set; a period has passed
\* since the previous one
Tick(isPhishing, batch) ==
  /\ interval = "running"
  /\ applied' = Ask(applied, IF isPhishing THEN "Phishing" ELSE "Benign")
  /\ now' = now + 1
  /\ stats' = TickStats(stats, isPhishing)
  /\ logs' = TickLogs(logs, [id |-> now', msg |-> <<"Auto-scanning batch #", batch>>,
                              level |-> "INFO"])
  /\ nTicks' = nTicks + 1
  /\ ignored' = FALSE
  /\ UNCHANGED <<url, result, loading, backendStatus, scans, nScans, interval, prior, pushed>>

\* analyzeUrl without setResult(null)
analyzeUrlKeepsResult ==
  /\ ignored' = (url = EmptyUrl)
  /\ IF url = EmptyUrl
       THEN UNCHANGED <<url, result, loading, backendStatus, stats, logs, now, scans, nScans, nTicks, interval, applied, prior, pushed>>
       ELSE /\ nScans' = nScans + 1
            /\ loading' = TRUE
            /\ scans' = Append(scans, [url |-> url, pc |-> "fetch"])
            /\ UNCHANGED <<url, result, backendStatus, stats, logs, now, nTicks, interval, applied, prior, pushed>>

\* analyzeUrl without its guard on the url
analyzeUrlUnguarded ==
  /\ ignored' = (url = EmptyUrl)
  /\ nScans' = nScans + 1
  /\ loading' = TRUE
  /\ result' = NoResult
  /\ scans' = Append(scans, [url |-> url, pc |-> "fetch"])
  /\ UNCHANGED <<url, backendStatus, stats, logs, now, nTicks, interval, applied, prior, pushed>>

\* analyzeUrl up to "await fetch": the guard, setLoading(true), setResult(null)
analyzeUrl ==
  /\ ignored' = (url = EmptyUrl)
  /\ IF url = EmptyUrl
       THEN UNCHANGED <<url, result, loading, backendStatus, stats, logs, now, scans, nScans, nTicks, interval, applied, prior, pushed>>
       ELSE /\ nScans' = nScans + 1
            /\ loading' = TRUE
            /\ result' = NoResult
            /\ scans' = Append(scans, [url |-> url, pc |-> "fetch"])
            /\ UNCHANGED <<url, backendStatus, stats, logs, now, nTicks, interval, applied, prior, pushed>>

\* onKeyDown: e.key === 'Enter' && analyzeUrl()
SubmitEnter == analyzeUrl

\* onClick of the button, which is disabled={loading || !url}
SubmitClick ==
  /\ ~(loading \/ url = EmptyUrl)
  /\ analyzeUrl

\* a catch block that only reports the error: no fallback result is produced
CatchReportsOnly(i, kind) ==
  /\ backendStatus' = "Offline (Simulated Mode)"
  /\ loading' = FALSE
  /\ scans' = Remove(scans, i)
  /\ ignored' = FALSE
  /\ UNCHANGED <<url, result, stats, logs, now, nScans, nTicks, interval, applied, prior, pushed>>

\* the catch block up to its await: the fetch rejected, the response was not
\* ok, or reading the body threw
Catch(i, kind) ==
  /\ backendStatus' = "Offline (Simulated Mode)"
  /\ scans' = [scans EXCEPT ![i].pc = "delay"]
  /\ ignored' = FALSE
  /\ UNCHANGED <<url, result, loading, stats, logs, now, nScans, nTicks, interval, applied, prior, pushed>>

\* await fetch rejects, or resolves with !response.ok
FetchFail(i, kind) ==
  /\ i \in 1..Len(scans)
  /\ scans[i].pc = "fetch"
  /\ kind \in {"network_error", "non_ok"}
  /\ Catch(i, kind)

\* await fetch resolves with response.ok; the handler awaits response.json()
FetchOk(i) ==
  /\ i \in 1..Len(scans)
  /\ scans[i].pc = "fetch"
  /\ scans' = [scans EXCEPT ![i].pc = "json"]
  /\ ignored' = FALSE
  /\ UNCHANGED <<url, result, loading, backendStatus, stats, logs, now, nScans, nTicks, interval, applied, prior, pushed>>

\* response.json() rejects, or the body is not an object to read fields of
JsonFail(i) ==
  /\ i \in 1..Len(scans)
  /\ scans[i].pc = "json"
  /\ Catch(i, "bad_body")

\* response.json() resolves with data: the rest of the try block, then finally
JsonOk(i, data, dt) ==
  /\ i \in 1..Len(scans)
  /\ scans[i].pc = "json"
  /\ result' = [prediction |-> data.prediction,
                confidence |-> ToFixed1(data.confidence),
                risk |-> data.risk_level]
  /\ now' = now + dt
  /\ logs' = ScanLogs(logs, [id |-> now', msg |-> <<"User Scan Success: ", scans[i].url>>,
                             level |-> "SUCCESS"])
  /\ stats' = ScanStats(stats, data.prediction)
  /\ applied' = IF data.prediction = "phishing" THEN Ask(applied, "Phishing")
                ELSE IF data.prediction = "benign" THEN Ask(applied, "Benign")
                ELSE applied
  /\ backendStatus' = "Online"
  /\ loading' = FALSE
  /\ scans' = Remove(scans, i)
  /\ ignored' = FALSE
  /\ UNCHANGED <<url, nScans, nTicks, interval, prior, pushed>>

\* the catch block's second half, had there been no finally after it
FallbackDoneNoFinally(i, rnd, dt) ==
  /\ i \in 1..Len(scans)
  /\ scans[i].pc = "delay"
  /\ result' = MockRes(scans[i].url, rnd)
  /\ now' = now + dt
  /\ logs' = ScanLogs(logs, [id |-> now', msg |-> <<"[Simulated] Scan: ", scans[i].url>>,
                             level |-> "WARN"])
  /\ scans' = Remove(scans, i)
  /\ ignored' = FALSE
  /\ UNCHANGED <<url, backendStatus, stats, nScans, nTicks, interval, applied, prior, pushed, loading>>

\* the catch block's second half reading the input as it is now instead of
\* the url of its own invocation
FallbackDoneReadsInput(i, rnd, dt) ==
  /\ i \in 1..Len(scans)
  /\ scans[i].pc = "delay"
  /\ result' = MockRes(url, rnd)
  /\ now' = now + dt
  /\ logs' = ScanLogs(logs, [id |-> now', msg |-> <<"[Simulated] Scan: ", url>>,
                             level |-> "WARN"])
  /\ loading' = FALSE
  /\ scans' = Remove(scans, i)
  /\ ignored' = FALSE
  /\ UNCHANGED <<url, backendStatus, stats, nScans, nTicks, interval, applied, prior, pushed>>

\* the catch block after its 800 ms delay, then finally
FallbackDone(i, rnd, dt) ==
  /\ i \in 1..Len(scans)
  /\ scans[i].pc = "delay"
  /\ result' = MockRes(scans[i].url, rnd)
  /\ now' = now + dt
  /\ logs' = ScanLogs(logs, [id |-> now', msg |-> <<"[Simulated] Scan: ", scans[i].url>>,
                             level |-> "WARN"])
  /\ loading' = FALSE
  /\ scans' = Remove(scans, i)
  /\ ignored' = FALSE
  /\ UNCHANGED <<url, backendStatus, stats, nScans, nTicks, interval, applied, prior, pushed>>

\* The handlers and continuations, with the model's bounds on how many
\* submissions are accepted and how many interval periods pass.
Handlers(urls, maxScans, maxTicks) ==
  \/ \E u \in urls : SetUrl(u)
  \/ /\ nTicks < maxTicks
     /\ \E isPhishing \in BOOLEAN, batch \in BatchIds : Tick(isPhishing, batch)
  \/ /\ url # EmptyUrl => nScans < maxScans
     /\ SubmitEnter
  \/ /\ nScans < maxScans
     /\ SubmitClick
  \/ \E i \in 1..Len(scans), kind \in {"network_error", "non_ok"} : FetchFail(i, kind)
  \/ \E i \in 1..Len(scans) : FetchOk(i)
  \/ \E i \in 1..Len(scans) : JsonFail(i)
  \/ \E i \in 1..Len(scans), data \in RemoteData, dt \in Elapsed : JsonOk(i, data, dt)
  \/ \E i \in 1..Len(scans), rnd \in RandTenths, dt \in Elapsed : FallbackDone(i, rnd, dt)

Next == Handlers(Urls, MaxScans, MaxTicks)

Spec == Init /\ [][Next]_vars

\* the same program followed through enough interval periods to fill the log
LogNext == Handlers(Urls, MaxLogScans, MaxLogTicks)

LogSpec == Init /\ [][LogNext]_vars

\* The program under fair scheduling: the remote call is answered or fails,
\* the body is read or reading it fails, and the fallback's timer fires.
FetchSettles ==
  \E i \in 1..Len(scans) :
    \/ \E kind \in {"network_error", "non_ok"} : FetchFail(i, kind)
    \/ FetchOk(i)

BodySettles ==
  \E i \in 1..Len(scans) :
    \/ JsonFail(i)
    \/ \E data \in RemoteData, dt \in Elapsed : JsonOk(i, data, dt)

DelayFires ==
  \E i \in 1..Len(scans), rnd \in RandTenths, dt \in Elapsed : FallbackDone(i, rnd, dt)

LiveNext == Handlers(Urls, MaxLiveScans, MaxLiveTicks)

LiveSpec ==
  /\ Init
  /\ [][LiveNext]_vars
  /\ WF_vars(FetchSettles)
  /\ WF_vars(BodySettles)
  /\ WF_vars(DelayFires)

\* The session from mount to unmount.  React runs the effect's cleanup when
\* the component unmounts; the page is gone then, so no handler runs, and a
\* continuation still pending finds its set calls ignored.

\* the effect's cleanup: clearInterval(interval)
Unmount ==
  /\ interval = "running"
  /\ interval' = "cleared"
  /\ UNCHANGED <<url, result, loading, backendStatus, stats, logs, now, scans,
                 nScans, nTicks, ignored, applied, prior, pushed>>

\* a continuation of analyzeUrl that runs to its end after the unmount
Discard(i) ==
  /\ interval = "cleared"
  /\ i \in 1..Len(scans)
  /\ scans' = Remove(scans, i)
  /\ UNCHANGED <<url, result, loading, backendStatus, stats, logs, now,
                 nScans, nTicks, ignored, interval, applied, prior, pushed>>

Mounted == interval = "running"

SessionNext ==
  \/ Unmount
  \/ /\ nTicks < MaxSessionTicks
     /\ \E isPhishing \in BOOLEAN, batch \in BatchIds : Tick(isPhishing, batch)
  \/ Mounted /\ \E u \in Urls : SetUrl(u)
  \/ /\ Mounted
     /\ url # EmptyUrl => nScans < MaxSessionScans
     /\ SubmitEnter
  \/ /\ Mounted
     /\ nScans < MaxSessionScans
     /\ SubmitClick
  \/ Mounted /\ \E i \in 1..Len(scans), kind \in {"network_error", "non_ok"} : FetchFail(i, kind)
  \/ Mounted /\ \E i \in 1..Len(scans) : FetchOk(i)
  \/ Mounted /\ \E i \in 1..Len(scans) : JsonFail(i)
  \/ Mounted /\ \E i \in 1..Len(scans), data \in RemoteData, dt \in Elapsed : JsonOk(i, data, dt)
  \/ Mounted /\ \E i \in 1..Len(scans), rnd \in RandTenths, dt \in Elapsed : FallbackDone(i, rnd, dt)
  \/ \E i \in 1..Len(scans) : Discard(i)

SessionSpec == Init /\ [][SessionNext]_vars

\* The failure path alone, over the urls that decide the fallback test: the
\* url is typed before the first submission and left as it is.
Pads == {<<>>, <<"x">>}
Middles == { <<>>, WordBank, WordSecure, <<"b", "a", "n">>, <<"s", "e", "c", "u", "r">>,
             <<"B", "a", "n", "k">>, <<"b", "a", "n", "x", "k">>,
             Str(48, "x"), Str(49, "x"), Str(50, "x"), Str(51, "x") }
EvalUrls == {pre \o mid \o suf : pre \in Pads, mid \in Middles, suf \in Pads}

EvalInit ==
  /\ url \in EvalUrls
  /\ result = NoResult
  /\ loading = FALSE
  /\ backendStatus = "Checking..."
  /\ stats = SeedStats
  /\ logs = <<>>
  /\ now = 0
  /\ scans = <<>>
  /\ nScans = 0
  /\ nTicks = 0
  /\ ignored = FALSE
  /\ interval = "running"
  /\ applied = NoneApplied
  /\ prior = NoLogs
  /\ pushed = NotPushed

EvalNext ==
  \/ /\ url # EmptyUrl => nScans < MaxEvalScans
     /\ SubmitEnter
  \/ \E i \in 1..Len(scans), kind \in {"network_error", "non_ok"} : FetchFail(i, kind)
  \/ \E i \in 1..Len(scans) : FetchOk(i)
  \/ \E i \in 1..Len(scans) : JsonFail(i)
  \/ \E i \in 1..Len(scans), rnd \in RandTenths, dt \in Elapsed : FallbackDone(i, rnd, dt)

EvalSpec == EvalInit /\ [][EvalNext]_vars

\* The three setLogs updaters as functions of the value they are handed,
\* whatever it is: each is run once on a value of the language.
OldEntries == { [id |-> 0, msg |-> <<"Auto-scanning batch #", 1000>>, level |-> "INFO"],
                [id |-> 0, msg |-> <<"[Simulated] Scan: ", UrlPlain>>, level |-> "WARN"] }

JsValues ==
  { [kind |-> k] : k \in {"undefined", "null", "object", "number"} }
    \cup { [kind |-> "string", items |-> <<"a", "b">>] }
    \cup { [kind |-> "array", items |-> [k \in 1..n |-> e]] : n \in 0..MaxPrior, e \in OldEntries }

\* Array.isArray(prev)
IsArray(v) == v.kind = "array"

\* const safePrev = Array.isArray(prev) ? prev : []
SafePrev(v) == IF IsArray(v) THEN v.items ELSE <<>>

\* ...prev is defined on what can be iterated; on anything else it raises
Iterable(v) == v.kind \in {"array", "string"}

TypeError == [kind |-> "TypeError"]

\* interval: prev => { const safePrev = ...; return [newLog, ...safePrev].slice(0, 7) }
TickPush(v, newLog) == [kind |-> "array", items |-> TickLogs(SafePrev(v), newLog)]

\* analyzeUrl, both paths: prev => [{...}, ...prev]
ScanPush(v, entry) ==
  IF Iterable(v) THEN [kind |-> "array", items |-> ScanLogs(v.items, entry)]
                 ELSE TypeError

PushInit ==
  /\ url = EmptyUrl
  /\ result = NoResult
  /\ loading = FALSE
  /\ backendStatus = "Checking..."
  /\ stats = SeedStats
  /\ logs = <<>>
  /\ now = 0
  /\ scans = <<>>
  /\ nScans = 0
  /\ nTicks = 0
  /\ ignored = FALSE
  /\ interval = "running"
  /\ applied = NoneApplied
  /\ prior \in JsValues
  /\ pushed = NotPushed

PushFromTick(batch) ==
  /\ pushed' = TickPush(prior, [id |-> now, msg |-> <<"Auto-scanning batch #", batch>>,
                                level |-> "INFO"])
  /\ UNCHANGED <<url, result, loading, backendStatus, stats, logs, now, scans, nScans,
                 nTicks, ignored, interval, applied, prior>>

PushFromSuccess(u) ==
  /\ pushed' = ScanPush(prior, [id |-> now, msg |-> <<"User Scan Success: ", u>>,
                                level |-> "SUCCESS"])
  /\ UNCHANGED <<url, result, loading, backendStatus, stats, logs, now, scans, nScans,
                 nTicks, ignored, interval, applied, prior>>

PushFromFallback(u) ==
  /\ pushed' = ScanPush(prior, [id |-> now, msg |-> <<"[Simulated] Scan: ", u>>,
                                level |-> "WARN"])
  /\ UNCHANGED <<url, result, loading, backendStatus, stats, logs, now, scans, nScans,
                 nTicks, ignored, interval, applied, prior>>

PushNext ==
  \/ \E batch \in BatchIds : PushFromTick(batch)
  \/ \E u \in Urls \ {EmptyUrl} : PushFromSuccess(u)
  \/ \E u \in Urls \ {EmptyUrl} : PushFromFallback(u)

PushSpec == PushInit /\ [][PushNext]_vars

(***************************************************************************)
(* Vocabulary of the properties.                                           *)
(***************************************************************************)
Labels == {"phishing", "benign"}

\* the count the statistics hold for a label
Count(st, name) ==
  LET ks == {k \in 1..Len(st) : st[k].name = name}
  IN IF ks = {} THEN 0 ELSE st[CHOOSE k \in ks : TRUE].value

CountOf(st, prediction) ==
  Count(st, IF prediction = "phishing" THEN "Phishing" ELSE "Benign")

Total(st) == Count(st, "Benign") + Count(st, "Phishing")

\* this step is an invocation of analyzeUrl running to its end
Settles == Len(scans') < Len(scans)

\* this step settles an invocation with an outcome of the data model: the
\* fallback outcome, or a remote outcome labelled phishing or benign
SettlesWithOutcome == Settles /\ result'.prediction \in Labels

\* C1: every submission of a non-empty URL merges exactly one outcome into the
\* statistics by the time it settles, on the success path and on the failure path.
C1_ExactlyOneMerge ==
  [][SettlesWithOutcome => Total(stats') = Total(stats) + 1]_vars

\* C2: the event log never holds more than 7 entries.
C2_LogWithinCapacity == Len(logs) <= LogCapacity

\* C3: a submission made while a scan is in flight is a no-op, from the button
\* and from the Enter key alike.
C3_SubmitWhileScanningIsNoOp ==
  [][(scans # <<>> /\ (SubmitEnter \/ SubmitClick))
       => UNCHANGED <<url, result, loading, backendStatus, stats, logs, now, scans, nScans>>]_vars

\* C4: the two counts add up to the outcomes merged since session start (counted
\* from the seeded counts): every step raises the sum by the number of outcomes
\* it produces, one per interval callback and one per settled submission.
C4_TotalCountsOutcomes ==
  [][Total(stats') = Total(stats) + (IF nTicks' # nTicks THEN 1 ELSE 0)
                                  + (IF SettlesWithOutcome THEN 1 ELSE 0)]_vars

Offline == "Offline (Simulated Mode)"

\* C5: no count of the statistics ever decreases from one state to the next,
\* and no count is ever negative.
C5_CountsNeverDecrease ==
  [][\A name \in {"Benign", "Phishing"} :
       /\ Count(stats, name) >= 0
       /\ Count(stats', name) >= Count(stats, name)]_vars

C5_Witness ==
  /\ nTicks = MaxTicks
  /\ nScans > Len(scans)
  /\ Count(stats, "Benign") > SeedBenign
  /\ Count(stats, "Phishing") > SeedPhishing

\* C6 as stated: the status becomes Offline only in the step of a scan whose
\* fetch rejected or answered with a non-success response; no interval
\* callback changes the status, and without a submission it stays as it began.
C6_OfflineOnlyAfterFailedCall ==
  [][/\ (backendStatus' = Offline /\ backendStatus # Offline)
          => \E i \in 1..Len(scans), kind \in {"network_error", "non_ok"} : FetchFail(i, kind)
     /\ nTicks' # nTicks => backendStatus' = backendStatus
     /\ nScans' = 0 => backendStatus' = "Checking..."]_vars

\* C6 as amended: the status becomes Offline only in the step of a scan
\* entering its catch block, because the fetch rejected, the response was not
\* a success, or the body of a success response could not be read; no interval
\* callback changes the status, and without a submission it stays as it began.
C6_OfflineOnlyFromCatch ==
  [][/\ (backendStatus' = Offline /\ backendStatus # Offline)
          => \/ \E i \in 1..Len(scans), kind \in {"network_error", "non_ok"} : FetchFail(i, kind)
             \/ \E i \in 1..Len(scans) : JsonFail(i)
     /\ nTicks' # nTicks => backendStatus' = backendStatus
     /\ nScans' = 0 => backendStatus' = "Checking..."]_vars

C6_Witness ==
  /\ backendStatus = Offline
  /\ nTicks > 0
  /\ \E i \in 1..Len(scans) : scans[i].pc = "delay"

\* C7: a scan whose remote call failed settles with the status Offline, the
\* fallback outcome for the submitted url displayed, that outcome's count
\* raised by 1, and a WARN event starting with "[Simulated]" at the head of the log.
C7_FailureSettles ==
  [][\A i \in 1..Len(scans) :
       (scans[i].pc = "delay" /\ scans' = Remove(scans, i))
         => /\ backendStatus' = Offline
            /\ \E rnd \in RandTenths : result' = MockRes(scans[i].url, rnd)
            /\ CountOf(stats', result'.prediction) = CountOf(stats, result'.prediction) + 1
            /\ Head(logs').level = "WARN"
            /\ Head(logs').msg[1] = "[Simulated] Scan: "]_vars

\* C8: a scan whose remote call succeeded with prediction p in {phishing,
\* benign} settles with p's count raised by exactly 1 and the other count as it
\* was, a SUCCESS event pushed at the head of the log, the status Online, and
\* p and the response's risk level displayed.
C8_SuccessSettles ==
  [][\A i \in 1..Len(scans), data \in RemoteData, dt \in Elapsed :
       (JsonOk(i, data, dt) /\ data.prediction \in Labels)
         => /\ CountOf(stats', data.prediction) = CountOf(stats, data.prediction) + 1
            /\ Total(stats') = Total(stats) + 1
            /\ Head(logs').level = "SUCCESS"
            /\ Tail(logs') = logs
            /\ backendStatus' = "Online"
            /\ result'.prediction = data.prediction
            /\ result'.risk = data.risk_level]_vars

C8_Witness ==
  /\ scans = <<>>
  /\ result.prediction = "benign"
  /\ result.risk = "MEDIUM"
  /\ backendStatus = "Online"
  /\ logs # <<>>
  /\ Head(logs).level = "SUCCESS"
  /\ Count(stats, "Benign") = SeedBenign + 1
  /\ nTicks = 0

\* C9: submitting an empty url changes nothing: the scanning flag, the result,
\* the statistics, the log and the status stay as they are, no remote call is
\* issued and no log event is created.
C9_EmptySubmitChangesNothing ==
  [][(url = EmptyUrl /\ (SubmitEnter \/ SubmitClick))
       => UNCHANGED <<url, result, loading, backendStatus, stats, logs, now, scans, nScans, nTicks>>]_vars

C9_Witness == ignored /\ url = EmptyUrl /\ result # NoResult

\* w occurs in u: u is some prefix, then w, then some suffix
Occurs(w, u) ==
  \E k \in 0..Len(u) : k + Len(w) <= Len(u) /\ \A j \in 1..Len(w) : u[k + j] = w[j]

Suspicious(u) == Occurs(WordBank, u) \/ Occurs(WordSecure, u) \/ Len(u) > 50

\* C10: the fallback labels a url phishing exactly when it contains "bank",
\* contains "secure" or is longer than 50 characters, and benign otherwise; the
\* risk is CRITICAL exactly when the label is phishing and LOW otherwise;
\* whatever the random confidence term.
C10_FallbackPolicy ==
  [][\A i \in 1..Len(scans) :
       (scans[i].pc = "delay" /\ scans' = Remove(scans, i))
         => /\ result'.prediction = (IF Suspicious(scans[i].url) THEN "phishing" ELSE "benign")
            /\ result'.risk = (IF result'.prediction = "phishing" THEN "CRITICAL" ELSE "LOW")]_vars

C10_Witness ==
  /\ url = Str(51, "x")
  /\ logs # <<>>
  /\ Head(logs).level = "WARN"
  /\ result.prediction = "phishing"
  /\ result.risk = "CRITICAL"
  /\ result.confidence = ConfBase + 199

\* C11: every accepted submission eventually settles: under fair scheduling of
\* the remote call's answer and of the handlers, a state with the scanning flag
\* set is always followed by one with the flag cleared and a result displayed,
\* whether the remote call succeeds or fails.
C11_ScanningLeadsToSettled ==
  loading ~> (~loading /\ result # NoResult)

C11_Witness ==
  /\ ~loading
  /\ result # NoResult
  /\ backendStatus = Offline
  /\ logs # <<>>
  /\ Head(logs).level = "WARN"

\* the interval callback can run in the current state
TickEnabled == ENABLED (\E isPhishing \in BOOLEAN, batch \in BatchIds : Tick(isPhishing, batch))

\* C12: the interval callback can run in every state of the scan handler
\* (idle, scanning, settled), and a step of it leaves loading, result,
\* backendStatus and url as they were: it writes only stats and logs.
C12_TickOrthogonal ==
  [][ /\ TickEnabled
      /\ nTicks' # nTicks =>
           /\ UNCHANGED <<loading, result, backendStatus, url>>
           /\ stats' # stats
           /\ logs' # logs ]_vars

C12_Witness ==
  /\ nTicks > 0
  /\ loading
  /\ scans # <<>>
  /\ logs # <<>>
  /\ Head(logs).level = "INFO"

\* the count a label started with
Seed(name) == IF name = "Benign" THEN SeedBenign ELSE SeedPhishing

\* C13: increments compose under interleaving: whatever the order in which
\* interval callbacks and scan resolutions ran, each label's count is its
\* starting count plus every increment an interval callback or a scan asked
\* for on that label; none is lost.
C13_MergesCompose ==
  \A name \in {"Benign", "Phishing"} :
    Count(stats, name) = Seed(name) + applied[name]

\* a scan is still in flight, another one resolved with a merge after it was
\* submitted (loading is already cleared), and an interval callback ran after
\* that
C13_Witness ==
  /\ Len(scans) = 1
  /\ scans[1].pc = "json"
  /\ ~loading
  /\ Len(logs) >= 2
  /\ logs[1].level = "INFO"
  /\ logs[2].level = "SUCCESS"
  /\ applied["Benign"] + applied["Phishing"] >= 2

\* C14: the timer is set once, at mount, and cleared at unmount: once it is
\* cleared it stays cleared, it is never set again, no interval callback
\* runs, and stats and logs stay as they were.
C14_NoTickAfterTeardown ==
  [][ /\ interval = "cleared" =>
           /\ interval' = "cleared"
           /\ nTicks' = nTicks
           /\ stats' = stats
           /\ logs' = logs
      /\ interval' = "running" => interval = "running" ]_vars

\* unmounted with interval callbacks behind it, more allowed by the bound, and
\* a step taken after the unmount
C14_Witness ==
  /\ interval = "cleared"
  /\ 0 < nTicks
  /\ nTicks < MaxSessionTicks
  /\ logs # <<>>
  /\ nScans = 1
  /\ scans = <<>>
  /\ loading

\* C15: every push to the log (interval callback, scan success, scan
\* failure) puts the new entry at the head, keeps the earlier entries in their
\* order and drops only those beyond the capacity of 7 from the tail.
C15_PushPrependsAndTruncates ==
  [][logs' # logs => logs' = Slice(<<Head(logs')>> \o logs, LogCapacity)]_vars

\* C16 as stated: the failure transition is one step, so no state has a scan
\* that has set the status to Offline and not yet pushed its WARN entry.
C16_NoOfflineBeforeWarn ==
  ~ \E i \in 1..Len(scans) : scans[i].pc = "delay" /\ backendStatus = Offline

\* scan i has seen the failure in this step and waits for the fallback's timer
EntersDelay(i) ==
  /\ scans[i].pc # "delay"
  /\ Len(scans') = Len(scans)
  /\ scans'[i].pc = "delay"

\* scan i was waiting for the fallback's timer and has run to its end
LeavesDelay(i) ==
  /\ scans[i].pc = "delay"
  /\ scans' = Remove(scans, i)

\* C16: a scan is suspended at the remote call (the request, then the reading
\* of the body) and once more at the fallback's 800 ms timer.  The step that
\* sees the failure sets the status to Offline and nothing else; the step
\* after the timer does the rest at once: it shows the fallback result, pushes
\* the WARN entry and clears loading.
C16_FailureInTwoSteps ==
  [][ /\ \A i \in 1..Len(scans) : scans[i].pc \in {"fetch", "json", "delay"}
      /\ \A i \in 1..Len(scans) :
           EntersDelay(i) =>
             /\ backendStatus' = Offline
             /\ UNCHANGED <<result, logs, stats, loading>>
      /\ \A i \in 1..Len(scans) :
           LeavesDelay(i) =>
             /\ result'.prediction \in Labels
             /\ Len(logs') = Len(logs) + 1
             /\ Head(logs').level = "WARN"
             /\ Tail(logs') = logs
             /\ ~loading'
             /\ backendStatus' = backendStatus ]_vars

\* a failed scan has gone through both steps and run to its end, its WARN
\* entry on top of an interval callback's entry
C16_Witness ==
  /\ nScans = 1
  /\ scans = <<>>
  /\ ~loading
  /\ backendStatus = Offline
  /\ result.prediction \in Labels
  /\ Len(logs) = 2
  /\ logs[1].level = "WARN"
  /\ logs[2].level = "INFO"

\* C17: the step that accepts a submission sets loading and clears the
\* result shown before, and whenever loading is set no result is shown.
C17_ScanningShowsNoResult ==
  [][ /\ nScans' # nScans => loading' /\ result' = NoResult
      /\ loading' => result' = NoResult ]_vars

\* a second submission was accepted after the first one had settled and
\* shown its result
C17_Witness ==
  /\ nScans = 2
  /\ Len(scans) = 1
  /\ scans[1].pc = "fetch"
  /\ loading
  /\ result = NoResult
  /\ logs # <<>>
  /\ Head(logs).level \in {"SUCCESS", "WARN"}

\* C18: an interval callback raises exactly one of the two counts, by
\* exactly 1, leaves the other as it was, pushes exactly one entry, of level
\* INFO, and starts no remote call.
C18_TickEffect ==
  [][ nTicks' # nTicks =>
        /\ \E name \in {"Benign", "Phishing"} :
             /\ Count(stats', name) = Count(stats, name) + 1
             /\ \A other \in {"Benign", "Phishing"} \ {name} :
                  Count(stats', other) = Count(stats, other)
        /\ Len(stats') = Len(stats)
        /\ logs' # <<>>
        /\ Head(logs').level = "INFO"
        /\ logs' = Slice(<<Head(logs')>> \o logs, LogCapacity)
        /\ UNCHANGED <<scans, nScans>> ]_vars

\* interval callbacks have raised both counts and filled the log
C18_Witness ==
  /\ nTicks = MaxLogTicks
  /\ Len(logs) = LogCapacity
  /\ \A k \in 1..Len(logs) : logs[k].level = "INFO"
  /\ Count(stats, "Benign") > SeedBenign
  /\ Count(stats, "Phishing") > SeedPhishing

\* C19: the entries held in the log have pairwise distinct ids, also when an
\* interval callback and a scan resolution, or two scan resolutions, make
\* their entries at the same reading of the clock.
C19_LogIdsDistinct ==
  \A j, k \in 1..Len(logs) : j # k => logs[j].id # logs[k].id

\* C20: each of the three pushes, handed a prior buffer that is absent or is
\* not an array, takes it for empty and returns a log holding just the new
\* entry; none raises.
C20_PushTakesBadBufferForEmpty ==
  (pushed # NotPushed /\ ~IsArray(prior)) =>
    /\ IsArray(pushed)
    /\ Len(pushed.items) = 1
    /\ pushed.items[1].level \in {"INFO", "SUCCESS", "WARN"}

\* C21: loading is set exactly when some accepted submission has not yet
\* run to its end: never cleared with one outstanding, never set with none.
C21_LoadingIffOutstanding ==
  loading <=> scans # <<>>

\* scan i has run to its end in this step and pushed its entry
SettlesScan(i) ==
  /\ scans' = Remove(scans, i)
  /\ Len(logs') = Len(logs) + 1

\* C22: a scan works on the url as it was when it was submitted, whatever is
\* typed into the input afterwards: the request is made for that url, the
\* invocation keeps it while suspended, its SUCCESS or WARN entry names it,
\* and the fallback's label and risk level are those of that url.
C22_ScanKeepsSubmittedUrl ==
  [][ /\ nScans' # nScans => scans' = Append(scans, [url |-> url, pc |-> "fetch"])
      /\ \A i \in 1..Len(scans) :
           /\ Len(scans') >= Len(scans) => scans'[i].url = scans[i].url
           /\ SettlesScan(i) =>
                /\ Head(logs').msg[2] = scans[i].url
                /\ scans[i].pc = "delay" =>
                     /\ result'.prediction =
                          (IF IsPhish(scans[i].url) THEN "phishing" ELSE "benign")
                     /\ result'.risk =
                          (IF IsPhish(scans[i].url) THEN "CRITICAL" ELSE "LOW") ]_vars

\* two scans overlapped and were submitted for different urls, so the input
\* was edited while the first was in flight; one of them has settled by the
\* fallback and its entry names a url that is not the other's
C22_Witness ==
  /\ nScans = 2
  /\ Len(scans) = 1
  /\ ~loading
  /\ logs # <<>>
  /\ Head(logs).level = "WARN"
  /\ Head(logs).msg[2] # scans[1].url
  /\ result.prediction \in Labels

\* what is shown for a response whose prediction is not one of the two labels
OtherShown ==
  { [prediction |-> d.prediction, confidence |-> ToFixed1(d.confidence), risk |-> d.risk_level] :
      d \in {r \in RemoteData : r.prediction \notin Labels} }

\* C23: a success response whose prediction is neither "phishing" nor
\* "benign" changes neither count, and the scan still settles: it pushes a
\* SUCCESS entry, sets the status to Online, shows that response as the
\* result and clears loading.
C23_OtherPredictionCountsNothing ==
  [][ \A i \in 1..Len(scans) :
        (scans[i].pc = "json" /\ SettlesScan(i) /\ result'.prediction \notin Labels) =>
          /\ stats' = stats
          /\ result' \in OtherShown
          /\ Head(logs').level = "SUCCESS"
          /\ Tail(logs') = logs
          /\ backendStatus' = "Online"
          /\ ~loading' ]_vars

\* a scan answered with such a prediction has settled after interval
\* callbacks, and the counts hold the callbacks' increments only
C23_Witness ==
  /\ result \in OtherShown
  /\ scans = <<>>
  /\ ~loading
  /\ backendStatus = "Online"
  /\ logs # <<>>
  /\ Head(logs).level = "SUCCESS"
  /\ nTicks > 0
  /\ Total(stats) = SeedBenign + SeedPhishing + nTicks

====
